---- MODULE Spec2Model ----
(***************************************************************************)
(* Client-side document store of the document archive page                 *)
(* (frontend/src/routes/+page.svelte) together with the components that    *)
(* feed it: Filters (frontend/src/lib/components/Filters.svelte, shipped   *)
(* in frontend/src/lib/index.ts) and UploadForm                            *)
(* (frontend/src/lib/components/UploadForm.svelte); and the path check of  *)
(* the analysis service that backend/README.md describes.                  *)
(*                                                                         *)
(* A JavaScript string is a sequence of one-character strings, so that     *)
(* toLowerCase, trim, includes and join are computed and not assumed.      *)
(* An optional field (T | undefined) is a record [def, val].               *)
(***************************************************************************)
EXTENDS Integers, Sequences, FiniteSets, TLC

(***************************************************************************)
(* Bounds of the model.                                                    *)
(***************************************************************************)
\* addDocument is called at most MaxInserts times in a behaviour
MaxInserts == 3

\* an upload form is submitted at most MaxSubmits times in a behaviour
MaxSubmits == 2

\* the timed behaviours of the search field end at MaxTime milliseconds
MaxTime == 900

\* a requested path has at most MaxSegments segments
MaxSegments == 3

(***************************************************************************)
(* Strings.                                                                *)
(***************************************************************************)
\* The upper-case letters that occur in the inputs, with their lower case.
LowerCaseOf ==
    [c \in {"A", "B", "C", "F", "I"} |->
        CASE c = "A" -> "a" [] c = "B" -> "b" [] c = "C" -> "c"
          [] c = "F" -> "f" [] c = "I" -> "i"]

\* String.prototype.toLowerCase
toLowerCase(s) ==
    [i \in 1..Len(s) |-> IF s[i] \in DOMAIN LowerCaseOf THEN LowerCaseOf[s[i]] ELSE s[i]]

WhiteSpace == {" "}

RECURSIVE trimStart(_)
trimStart(s) ==
    IF s # <<>> /\ Head(s) \in WhiteSpace THEN trimStart(Tail(s)) ELSE s

RECURSIVE trimEnd(_)
trimEnd(s) ==
    IF s # <<>> /\ s[Len(s)] \in WhiteSpace THEN trimEnd(SubSeq(s, 1, Len(s) - 1)) ELSE s

\* String.prototype.trim
trim(s) == trimEnd(trimStart(s))

\* String.prototype.includes
includes(s, t) ==
    \E i \in 0..(Len(s) - Len(t)) : SubSeq(s, i + 1, i + Len(t)) = t

\* An optional value: undefined, or a defined value.
Undefined == [def |-> FALSE, val |-> <<>>]
Some(v) == [def |-> TRUE, val |-> v]

\* A JSON object where the page expects an array of strings: a value that is
\* defined (and truthy) but not iterable.
JsonObject == [def |-> TRUE, val |-> <<>>, object |-> TRUE]

\* The value can be spread into an array literal.
isIterable(x) == "object" \notin DOMAIN x

\* The string an array element contributes to Array.prototype.join:
\* undefined contributes the empty string.
joinItem(x) == IF x.def THEN x.val ELSE <<>>

\* Array.prototype.join(' ') over an array of optional strings: the items
\* separated by one space, a separator between every two ELEMENTS, whether
\* they are defined or not.
RECURSIVE join(_)
join(arr) ==
    IF arr = <<>> THEN <<>>
    ELSE IF Len(arr) = 1 THEN joinItem(arr[1])
    ELSE joinItem(arr[1]) \o <<" ">> \o join(Tail(arr))


(***************************************************************************)
(* Inputs.                                                                 *)
(***************************************************************************)
Invoice_A == <<"I", "n", "v", "o", "i", "c", "e", " ", "A">>
Contract_B == <<"C", "o", "n", "t", "r", "a", "c", "t", " ", "B">>
Fattura == <<"F", "a", "t", "t", "u", "r", "a">>
Contratto == <<"C", "o", "n", "t", "r", "a", "t", "t", "o">>
fattura == <<"f", "a", "t", "t", "u", "r", "a">>
contract == <<"c", "o", "n", "t", "r", "a", "c", "t">>
zzz == <<"z", "z", "z">>

\* An AnalyzedData value: what response.json() hands to onAdd.
AnalyzedData(filename, tipo, soggetti, descrizione) ==
    [filename |-> filename,
     extracted_data |-> [tipo_documento |-> tipo,
                         soggetti_coinvolti |-> soggetti,
                         descrizione_breve |-> descrizione]]

InvoiceA == AnalyzedData(Some(Invoice_A), Some(Fattura), Undefined, Undefined)
ContractB == AnalyzedData(Some(Contract_B), Some(Contratto), Undefined, Undefined)
\* A response without filename and without tipo_documento (the shape of the
\* backend README's expected result); its description holds the word "fattura".
Untyped == AnalyzedData(Undefined, Undefined, Some(<<zzz>>), Some(fattura))

\* A response that UploadForm's AnalyzedDocument type admits (extracted_data
\* is a Record<string, any>) and the page's AnalyzedData type does not: the
\* model listed the subjects as an object, by role.
SubjectsByRole == AnalyzedData(Some(Invoice_A), Some(Fattura), JsonObject, Undefined)

\* The analysis responses, and what the user types into the search field and
\* into the type field, in the behaviours of the whole page.
Responses == { InvoiceA, ContractB }
SearchInputs == { contract }
TypeInputs == { fattura }

\* The values Math.random() returns.
RandomValues == { 0, 1 }

(***************************************************************************)
(* State.                                                                  *)
(***************************************************************************)
VARIABLES
    documents,      \* +page.svelte: let documents: Doc[]
    filtered,       \* +page.svelte: let filtered: Doc[]
    filters,        \* +page.svelte: let filters: FilterValues
    search,         \* Filters.svelte: let search (bound to the search input)
    type,           \* Filters.svelte: let type (bound to the type input)
    debounceTimer,  \* Filters.svelte: let debounceTimer (0 for null, else a timeout handle)
    timers,         \* the timeouts that are scheduled and not yet run or cleared
    clock,          \* the time of the event loop, in milliseconds
    now,            \* the value Date.now() had when it was last read
    mounted,        \* +page.svelte: the page is mounted (onMount has run)
    destroyed,      \* the page and its components are destroyed (onDestroy has run)
    page_isLoading, \* +page.svelte: let isLoading
    loadingError,   \* +page.svelte: let loadingError
    file,           \* UploadForm.svelte: let file, of each form instance
    error,          \* UploadForm.svelte: let error, of each form instance
    isLoading,      \* UploadForm.svelte: let isLoading, of each form instance
    calls,          \* the onSubmit calls that are suspended at an await
    request,        \* analysis service: the path of the request being handled
    phase,          \* analysis service: how far the handling of the request is
    reads,          \* analysis service: the files read for the request
    created,        \* history: the ids addDocument has generated, oldest first
    lastCall,       \* history: the latest call of the store, if addDocument
    lastQuery,      \* history: the latest call of the component's applyFilters
    submits,        \* history: the number of fetch calls made so far
    completed,      \* history: the onAdd calls made by onSubmit, oldest first
    lastInputAt,    \* history: the time of the latest search input, -1 if none
    burstSize,      \* history: the search inputs since the timeout last ran, up to 3
    applied         \* history: the times the debounce timeout ran since that input

\* Variable groups, by component.
storeVars == <<documents, filtered, filters>>
filtersVars == <<search, type, debounceTimer, timers>>
pageVars == <<mounted, destroyed, page_isLoading, loadingError>>
formVars == <<file, error, isLoading, calls>>
serviceVars == <<request, phase, reads>>
uploadHistory == <<submits, completed>>
debounceHistory == <<clock, lastInputAt, burstSize, applied>>

vars == <<documents, filtered, filters, search, type, debounceTimer, timers, clock,
          now, mounted, destroyed, page_isLoading, loadingError, file, error,
          isLoading, calls,
          request, phase, reads, created, lastCall, lastQuery, submits, completed,
          lastInputAt, burstSize, applied>>

(***************************************************************************)
(* +page.svelte: the document store.                                       *)
(***************************************************************************)
\* x || '' where x is an optional string
orEmptyString(x) == IF x.def /\ x.val # <<>> THEN x.val ELSE <<>>

\* ...(x || []) where x is an optional array of strings
spreadOrEmpty(x) == IF x.def THEN [i \in 1..Len(x.val) |-> Some(x.val[i])] ELSE <<>>

\* The searchable text of a document.
searchableText(doc) ==
    toLowerCase(join(<<doc.name, doc.extracted_data.tipo_documento>>
                     \o spreadOrEmpty(doc.extracted_data.soggetti_coinvolti)
                     \o <<doc.extracted_data.descrizione_breve>>))

\* A faulty filterCallback: the search term is not lower-cased.
filterCallback_searchAsTyped(doc, f) ==
    IF f.search # <<>> /\ ~includes(searchableText(doc), f.search)
    THEN FALSE
    ELSE IF f.type # <<>>
            /\ toLowerCase(orEmptyString(doc.extracted_data.tipo_documento)) # toLowerCase(f.type)
    THEN FALSE
    ELSE TRUE

\* A faulty filterCallback: the type term is looked for inside tipo_documento.
filterCallback_typeSubstring(doc, f) ==
    IF f.search # <<>> /\ ~includes(searchableText(doc), toLowerCase(f.search))
    THEN FALSE
    ELSE IF f.type # <<>>
            /\ ~includes(toLowerCase(orEmptyString(doc.extracted_data.tipo_documento)),
                         toLowerCase(f.type))
    THEN FALSE
    ELSE TRUE

\* A faulty filterCallback: tipo_documento is compared as it is written.
filterCallback_typeAsWritten(doc, f) ==
    IF f.search # <<>> /\ ~includes(searchableText(doc), toLowerCase(f.search))
    THEN FALSE
    ELSE IF f.type # <<>>
            /\ orEmptyString(doc.extracted_data.tipo_documento) # toLowerCase(f.type)
    THEN FALSE
    ELSE TRUE

\* A faulty filterCallback: a document that passes one of the two tests is
\* kept.
filterCallback_passesEither(doc, f) ==
    IF /\ f.search # <<>> /\ ~includes(searchableText(doc), toLowerCase(f.search))
       /\ f.type # <<>>
            /\ toLowerCase(orEmptyString(doc.extracted_data.tipo_documento)) # toLowerCase(f.type)
    THEN FALSE
    ELSE TRUE

\* The callback applyFilters passes to documents.filter.
filterCallback(doc, f) ==
    IF f.search # <<>> /\ ~includes(searchableText(doc), toLowerCase(f.search))
    THEN FALSE
    ELSE IF f.type # <<>>
            /\ toLowerCase(orEmptyString(doc.extracted_data.tipo_documento)) # toLowerCase(f.type)
    THEN FALSE
    ELSE TRUE

\* The callback throws a TypeError for the document: it spreads
\* (soggetti_coinvolti || []), and what it spreads is not iterable.
filterCallbackThrows(doc) ==
    /\ doc.extracted_data.soggetti_coinvolti.def
    /\ ~isIterable(doc.extracted_data.soggetti_coinvolti)

\* Array.prototype.filter with that callback.
RECURSIVE arrayFilter(_, _)
arrayFilter(docs, f) ==
    IF docs = <<>> THEN <<>>
    ELSE IF filterCallback(Head(docs), f)
         THEN <<Head(docs)>> \o arrayFilter(Tail(docs), f)
         ELSE arrayFilter(Tail(docs), f)

\* applyFilters() of the page: the value it assigns to filtered.
applyFilters(docs, f) == arrayFilter(docs, f)

\* applyFilters() throws: documents.filter stops at the first document for
\* which the callback throws, and nothing is assigned to filtered.
applyFiltersThrows(docs) == \E i \in 1..Len(docs) : filterCallbackThrows(docs[i])

\* The value of filtered after applyFilters() ran over docs with the query f.
filteredAfter(docs, f) ==
    IF applyFiltersThrows(docs) THEN filtered ELSE applyFilters(docs, f)

\* `${Date.now()}-${Math.random()}`. The text before the first '-' is the
\* decimal clock value and the rest is the random number, so two ids are the
\* same string exactly when both parts are equal: the id is the pair.
newId(t, r) == <<t, r>>

\* const newDoc: Doc = {...}. The two clock reads of addDocument (the id's and
\* uploadedAt's) are taken in the same millisecond.
newDoc(analyzedDoc, t, r) ==
    [id |-> newId(t, r),
     name |-> analyzedDoc.filename,
     uploadedAt |-> t,
     extracted_data |-> analyzedDoc.extracted_data]

\* A faulty addDocument: applyFilters() is not called.
addDocument_noApplyFilters(analyzedDoc, t, r) ==
    /\ documents' = <<newDoc(analyzedDoc, t, r)>> \o documents
    /\ filtered' = filtered
    /\ filters' = filters

\* A faulty addDocument: the new document is put last.
addDocument_appends(analyzedDoc, t, r) ==
    /\ documents' = documents \o <<newDoc(analyzedDoc, t, r)>>
    /\ filtered' = filteredAfter(documents', filters)
    /\ filters' = filters

\* A faulty addDocument: the filters are cleared, to show the new document.
addDocument_clearsFilters(analyzedDoc, t, r) ==
    /\ documents' = <<newDoc(analyzedDoc, t, r)>> \o documents
    /\ filters' = [search |-> <<>>, type |-> <<>>]
    /\ filtered' = filteredAfter(documents', filters')

\* addDocument(analyzedDoc), at clock value t with Math.random() returning r.
addDocument(analyzedDoc, t, r) ==
    /\ documents' = <<newDoc(analyzedDoc, t, r)>> \o documents
    /\ filtered' = filteredAfter(documents', filters)
    /\ filters' = filters

\* A faulty deleteDocument: applyFilters() is not called.
deleteDocument_noApplyFilters(id) ==
    /\ documents' = SelectSeq(documents, LAMBDA d : d.id # id)
    /\ filtered' = filtered
    /\ filters' = filters

\* deleteDocument(id)
deleteDocument(id) ==
    /\ documents' = SelectSeq(documents, LAMBDA d : d.id # id)
    /\ filtered' = filteredAfter(documents', filters)
    /\ filters' = filters

\* A faulty onFilter: applyFilters() runs before the assignment to filters.
onFilter_appliesOldFilters(newFilters) ==
    /\ filters' = newFilters
    /\ filtered' = filteredAfter(documents, filters)
    /\ documents' = documents

\* onFilter(newFilters)
onFilter(newFilters) ==
    /\ filters' = newFilters
    /\ filtered' = filteredAfter(documents, filters')
    /\ documents' = documents

(***************************************************************************)
(* Filters.svelte: the search and type fields in front of the store.       *)
(***************************************************************************)
\* $: hasActiveFilters
hasActiveFilters(s, ty) == trim(s) # <<>> \/ trim(ty) # <<>>

\* applyFilters() of the component, with the fields holding s and ty: it
\* trims both and hands them to the onFilter prop, the page's onFilter.
Filters_applyFilters(s, ty) == onFilter([search |-> trim(s), type |-> trim(ty)])

\* export let debounceMs = 300; the page does not pass the prop.
debounceMs == 300

\* clearTimeout(id): the scheduled timeouts that are left. A handle that no
\* scheduled timeout has (one that ran already) clears nothing.
clearTimeout(scheduled, id) == { tm \in scheduled : tm.id # id }

\* The handle setTimeout returns: a positive number that no scheduled timeout
\* has.
newHandle(scheduled) ==
    CHOOSE id \in 1..(Cardinality(scheduled) + 1) :
        /\ \A tm \in scheduled : tm.id # id
        /\ \A smaller \in 1..(id - 1) : \E tm \in scheduled : tm.id = smaller

\* setTimeout(callback, delay) at the time clock: the scheduled timeouts with
\* the new one, due delay milliseconds from now.
setTimeout(scheduled, delay) ==
    scheduled \cup { [id |-> newHandle(scheduled), due |-> clock + delay] }

\* A faulty handleSearchInput: the pending timeout is not cleared.
handleSearchInput_noClearTimeout(text) ==
    /\ search' = text
    /\ debounceTimer' = newHandle(timers)
    /\ timers' = setTimeout(timers, debounceMs)
    /\ UNCHANGED <<type, documents, filtered, filters>>

\* The user edits the search field to text: bind:value stores it, then
\* on:input runs handleSearchInput, which clears the pending timeout and
\* schedules a new one.
handleSearchInput(text) ==
    LET cleared == IF debounceTimer # 0 THEN clearTimeout(timers, debounceTimer)
                                        ELSE timers
    IN  /\ search' = text
        /\ debounceTimer' = newHandle(cleared)
        /\ timers' = setTimeout(cleared, debounceMs)
        /\ UNCHANGED <<type, documents, filtered, filters>>

\* The callback given to setTimeout runs for the scheduled timeout tm.
debounceTimeout(tm) ==
    /\ tm \in timers
    /\ timers' = timers \ {tm}
    /\ Filters_applyFilters(search, type)
    /\ UNCHANGED <<search, type, debounceTimer>>

\* A faulty handleTypeChange: the type input is debounced like the search
\* input.
handleTypeChange_debounced(text) ==
    LET cleared == IF debounceTimer # 0 THEN clearTimeout(timers, debounceTimer)
                                        ELSE timers
    IN  /\ type' = text
        /\ debounceTimer' = newHandle(cleared)
        /\ timers' = setTimeout(cleared, debounceMs)
        /\ UNCHANGED <<search, documents, filtered, filters>>

\* The user edits the type field to text: bind:value stores it, then
\* on:input runs handleTypeChange.
handleTypeChange(text) ==
    /\ type' = text
    /\ Filters_applyFilters(search, type')
    /\ UNCHANGED <<search, debounceTimer, timers>>

\* A faulty resetFilters: the pending timeout is not cleared.
resetFilters_noClearTimeout ==
    /\ UNCHANGED <<debounceTimer, timers>>
    /\ search' = <<>>
    /\ type' = <<>>
    /\ Filters_applyFilters(search', type')

\* resetFilters()
resetFilters ==
    /\ IF debounceTimer # 0
       THEN debounceTimer' = 0 /\ timers' = clearTimeout(timers, debounceTimer)
       ELSE UNCHANGED <<debounceTimer, timers>>
    /\ search' = <<>>
    /\ type' = <<>>
    /\ Filters_applyFilters(search', type')

\* on:click of the search chip: search = ''; applyFilters()
clearSearchChip ==
    /\ search' = <<>>
    /\ Filters_applyFilters(search', type)
    /\ UNCHANGED <<type, debounceTimer, timers>>

\* on:click of the type chip: type = ''; applyFilters()
clearTypeChip ==
    /\ type' = <<>>
    /\ Filters_applyFilters(search, type')
    /\ UNCHANGED <<search, debounceTimer, timers>>

\* A faulty onDestroy callback: the pending timeout is left scheduled.
onDestroy_noClearTimeout ==
    /\ destroyed' = TRUE
    /\ UNCHANGED <<search, type, debounceTimer, timers>>

\* The callback given to onDestroy: it clears the pending timeout and leaves
\* debounceTimer as it is.
onDestroy ==
    /\ timers' = IF debounceTimer # 0 THEN clearTimeout(timers, debounceTimer)
                                      ELSE timers
    /\ destroyed' = TRUE
    /\ UNCHANGED <<search, type, debounceTimer>>

(***************************************************************************)
(* +page.svelte: the loading state of the list, and the life cycle.        *)
(***************************************************************************)
\* A faulty onMount: it starts a load of the initial collection.
onMount_startsLoading ==
    /\ mounted' = TRUE
    /\ page_isLoading' = TRUE
    /\ loadingError' = loadingError

\* onMount(() => { isLoading = false; })
onMount ==
    /\ mounted' = TRUE
    /\ page_isLoading' = FALSE
    /\ loadingError' = loadingError

(***************************************************************************)
(* UploadForm.svelte: the upload form. file, error and isLoading are kept  *)
(* per form instance. An error message is a TLA+ string: the code shows    *)
(* it and tests it for emptiness, no more.                                 *)
(***************************************************************************)
\* export let maxFileSize: number = 10; the page passes 10 as well.
maxFileSize == 10

\* const maxBytes = maxFileSize * 1024 * 1024
maxBytes == maxFileSize * 1024 * 1024

\* let file: File | null. Of a File the code reads the size.
null == [isFile |-> FALSE, size |-> 0]
File(size) == [isFile |-> TRUE, size |-> size]

\* The form instances.
Forms == DOMAIN file

\* A faulty onFileChange: the size is not validated.
onFileChange_noSizeCheck(f, selectedFile) ==
    /\ error' = [error EXCEPT ![f] = ""]
    /\ file' = [file EXCEPT ![f] = selectedFile]
    /\ UNCHANGED <<isLoading, calls>>

\* onFileChange(e) of form f, with input.files?.[0] || null = selectedFile.
\* input.value = '' leaves the input with no selection, as file = null says.
onFileChange(f, selectedFile) ==
    /\ IF selectedFile = null
       THEN /\ error' = [error EXCEPT ![f] = ""]
            /\ file' = [file EXCEPT ![f] = null]
       ELSE IF selectedFile.size > maxBytes
       THEN /\ error' = [error EXCEPT ![f] = "File troppo grande. Massimo 10MB consentiti."]
            /\ file' = [file EXCEPT ![f] = null]
       ELSE /\ error' = [error EXCEPT ![f] = ""]
            /\ file' = [file EXCEPT ![f] = selectedFile]
    /\ UNCHANGED <<isLoading, calls>>

\* disabled={isLoading} of the file input
fileInputDisabled(f) == isLoading[f]

\* A faulty binding of the submit button: disabled={!file}.
submitDisabled_whileNoFile(f) == file[f] = null

\* disabled={isLoading || !file} of the submit button
submitDisabled(f) == isLoading[f] \/ file[f] = null

\* onSubmit(e) of form f up to its first await: the n-th fetch of the
\* behaviour is started and the call is suspended at it.
onSubmit(f, n) ==
    IF file[f] = null
    THEN /\ error' = [error EXCEPT ![f] = "Seleziona un file da caricare"]
         /\ UNCHANGED <<file, isLoading, calls>>
    ELSE /\ error' = [error EXCEPT ![f] = ""]
         /\ isLoading' = [isLoading EXCEPT ![f] = TRUE]
         /\ calls' = calls \cup { [form |-> f, n |-> n, pc |-> "fetch", file |-> file[f]] }
         /\ UNCHANGED file

\* catch (err) { error = err.message } finally { isLoading = false } of the
\* call c, where err is an Error with the message given.
catchFinally(c, message) ==
    /\ error' = [error EXCEPT ![c.form] = message]
    /\ isLoading' = [isLoading EXCEPT ![c.form] = FALSE]
    /\ calls' = calls \ {c}
    /\ UNCHANGED file

\* await fetch(...) rejects: the network failed.
fetchRejected(c) ==
    /\ c.pc = "fetch"
    /\ catchFinally(c, "Failed to fetch")
    /\ UNCHANGED storeVars

\* await fetch(...) returns a response; response.ok is ok. The call goes on
\* to await response.json(), in the if (!response.ok) branch or after it.
fetchFulfilled(c, ok) ==
    /\ c.pc = "fetch"
    /\ calls' = (calls \ {c}) \cup { [c EXCEPT !.pc = IF ok THEN "json" ELSE "errorJson"] }
    /\ UNCHANGED <<file, error, isLoading>>
    /\ UNCHANGED storeVars

\* The body of a response that is not ok: not JSON, the JSON value null, or
\* a JSON object whose error member is the string given ("" if it has none).
Unparsable == [kind |-> "unparsable", error |-> ""]
JsonNull == [kind |-> "null", error |-> ""]
ErrorObject(message) == [kind |-> "object", error |-> message]

\* The message of the error thrown in the if (!response.ok) branch:
\* response.json().catch(...) gives the default object for an unparsable
\* body; reading .error of null throws a TypeError; otherwise
\* new Error(errorData.error || `Errore HTTP ${response.status}`).
thrownMessage(body) ==
    IF body.kind = "unparsable" THEN "Errore di comunicazione con il server"
    ELSE IF body.kind = "null" THEN "Cannot read properties of null (reading 'error')"
    ELSE IF body.error # "" THEN body.error
    ELSE "Errore HTTP 500"

\* await response.json().catch(...) of a response that is not ok settles.
errorJsonSettled(c, body) ==
    /\ c.pc = "errorJson"
    /\ catchFinally(c, thrownMessage(body))
    /\ UNCHANGED storeVars

\* A faulty jsonRejected: a placeholder document is added for the file.
jsonRejected_addsPlaceholder(c) ==
    /\ c.pc = "json"
    /\ catchFinally(c, "Unexpected token < in JSON at position 0")
    /\ addDocument(AnalyzedData(Undefined, Undefined, Undefined, Undefined), now, 0)

\* await response.json() of an ok response rejects: the body is not JSON.
jsonRejected(c) ==
    /\ c.pc = "json"
    /\ catchFinally(c, "Unexpected token < in JSON at position 0")
    /\ UNCHANGED storeVars

\* A faulty resetForm: the selected file is kept.
resetFormFinally_keepsFile(c) ==
    /\ error' = [error EXCEPT ![c.form] = ""]
    /\ isLoading' = [isLoading EXCEPT ![c.form] = FALSE]
    /\ calls' = calls \ {c}
    /\ UNCHANGED file

\* resetForm() and finally { isLoading = false } of the call c
resetFormFinally(c) ==
    /\ file' = [file EXCEPT ![c.form] = null]
    /\ error' = [error EXCEPT ![c.form] = ""]
    /\ isLoading' = [isLoading EXCEPT ![c.form] = FALSE]
    /\ calls' = calls \ {c}

\* await response.json() of an ok response returns analyzedData:
\* onAdd(analyzedData), the page's addDocument, runs at clock value t with
\* Math.random() returning r. If it throws (its applyFilters() does, after
\* the assignment to documents), the catch block shows the message;
\* otherwise resetForm() runs.
jsonFulfilled(c, analyzedData, t, r) ==
    /\ c.pc = "json"
    /\ addDocument(analyzedData, t, r)
    /\ IF applyFiltersThrows(documents')
       THEN catchFinally(c, "Spread syntax requires ...iterable[Symbol.iterator] to be a function")
       ELSE resetFormFinally(c)

(***************************************************************************)
(* The events of the page.                                                 *)
(***************************************************************************)
\* The record of an addDocument call: its argument, the id it generated and
\* the lists it found.
CalledAdd(analyzedDoc, id) ==
    [op |-> "addDocument", arg |-> analyzedDoc, id |-> id,
     documents |-> documents, filtered |-> filtered]

\* The latest call of the store was not addDocument, or there was none.
Other == [op |-> "other", arg |-> <<>>, id |-> <<>>, documents |-> <<>>, filtered |-> <<>>]

\* The record of a call of the component's applyFilters: the texts of the two
\* fields as it found them, and whether the query it passed to onFilter was
\* the active query already; repeated says so of the latest call of the store.
CalledApply ==
    [search |-> search', type |-> type', repeated |-> (filters' = filters)]

NotRepeated == [lastQuery EXCEPT !.repeated = FALSE]

\* The state after the scripts of the page and of its components ran: the
\* page has one upload form (form 1) and one Filters component; nothing is
\* mounted yet.
Init ==
    /\ documents = <<>>
    /\ filtered = <<>>
    /\ filters = [search |-> <<>>, type |-> <<>>]
    /\ search = <<>>
    /\ type = <<>>
    /\ debounceTimer = 0
    /\ timers = {}
    /\ clock = 0
    /\ now = 0
    /\ mounted = FALSE
    /\ destroyed = FALSE
    /\ page_isLoading = FALSE
    /\ loadingError = ""
    /\ file = [f \in {1} |-> null]
    /\ error = [f \in {1} |-> ""]
    /\ isLoading = [f \in {1} |-> FALSE]
    /\ calls = {}
    /\ request = [absolute |-> FALSE, segments |-> <<>>]
    /\ phase = "idle"
    /\ reads = {}
    /\ created = <<>>
    /\ lastCall = Other
    /\ lastQuery = [search |-> <<>>, type |-> <<>>, repeated |-> FALSE]
    /\ submits = 0
    /\ completed = <<>>
    /\ lastInputAt = -1
    /\ burstSize = 0
    /\ applied = <<>>

\* The page is mounted; the events below need the mounted page.
OnMount ==
    /\ ~mounted
    /\ ~destroyed
    /\ onMount
    /\ UNCHANGED <<destroyed, storeVars, filtersVars, formVars, serviceVars, now, created,
                   lastCall, lastQuery, uploadHistory, debounceHistory>>

\* onAdd is called with a result of the analysis, one of R. Date.now() is
\* read in the millisecond of the previous read or in the next one.
AddDocument(R) ==
    \E analyzedDoc \in R, t \in {now, now + 1}, r \in RandomValues :
        /\ mounted
        /\ Len(created) < MaxInserts
        /\ addDocument(analyzedDoc, t, r)
        /\ now' = t
        /\ created' = Append(created, newId(t, r))
        /\ lastCall' = CalledAdd(analyzedDoc, newId(t, r))
        /\ lastQuery' = NotRepeated
        /\ UNCHANGED <<filtersVars, pageVars, formVars, serviceVars, uploadHistory,
                       debounceHistory>>

\* The ids of the documents in docs.
idsOf(docs) == { docs[i].id : i \in 1..Len(docs) }

\* deleteDocument is called with an id: of a document of the list (a card's
\* delete button), of a document deleted before, or one never generated.
DeleteDocument ==
    \E id \in idsOf(documents) \cup { created[i] : i \in 1..Len(created) }
              \cup { newId(MaxInserts + 1, 0) } :
        /\ mounted
        /\ deleteDocument(id)
        /\ lastCall' = Other
        /\ lastQuery' = NotRepeated
        /\ UNCHANGED <<filtersVars, pageVars, formVars, serviceVars, now, created,
                       uploadHistory, debounceHistory>>

\* The user types one of S into the search field.
SearchInput(S) ==
    \E text \in S :
        /\ mounted
        /\ text # search
        /\ handleSearchInput(text)
        /\ UNCHANGED <<pageVars, formVars, serviceVars, now, created, lastCall,
                       lastQuery, uploadHistory, debounceHistory>>

\* The event loop runs the callback of a scheduled timeout, at some time.
DebounceTimeout ==
    \E tm \in timers :
        /\ debounceTimeout(tm)
        /\ lastQuery' = CalledApply
        /\ lastCall' = Other
        /\ UNCHANGED <<pageVars, formVars, serviceVars, now, created, uploadHistory,
                       debounceHistory>>

\* The user types one of T into the type field.
TypeInput(T) ==
    \E text \in T :
        /\ mounted
        /\ text # type
        /\ handleTypeChange(text)
        /\ lastQuery' = CalledApply
        /\ lastCall' = Other
        /\ UNCHANGED <<pageVars, formVars, serviceVars, now, created, uploadHistory,
                       debounceHistory>>

\* The reset button is disabled unless a filter is active.
ResetFilters ==
    /\ mounted
    /\ hasActiveFilters(search, type)
    /\ resetFilters
    /\ lastQuery' = CalledApply
    /\ lastCall' = Other
    /\ UNCHANGED <<pageVars, formVars, serviceVars, now, created, uploadHistory,
                   debounceHistory>>

\* The search chip is shown when the trimmed search text is not empty.
ClearSearchChip ==
    /\ mounted
    /\ trim(search) # <<>>
    /\ clearSearchChip
    /\ lastQuery' = CalledApply
    /\ lastCall' = Other
    /\ UNCHANGED <<pageVars, formVars, serviceVars, now, created, uploadHistory,
                   debounceHistory>>

\* The type chip is shown when the trimmed type text is not empty.
ClearTypeChip ==
    /\ mounted
    /\ trim(type) # <<>>
    /\ clearTypeChip
    /\ lastQuery' = CalledApply
    /\ lastCall' = Other
    /\ UNCHANGED <<pageVars, formVars, serviceVars, now, created, uploadHistory,
                   debounceHistory>>

Next ==
    \/ OnMount
    \/ AddDocument(Responses)
    \/ DeleteDocument
    \/ SearchInput(SearchInputs)
    \/ DebounceTimeout
    \/ TypeInput(TypeInputs)
    \/ ResetFilters
    \/ ClearSearchChip
    \/ ClearTypeChip

Spec == Init /\ [][Next]_vars

(***************************************************************************)
(* The filter predicates, driven by the Filters component alone: the list  *)
(* holds the documents that a sequence of addDocument calls left, and the  *)
(* user edits, clears and resets the two fields.                           *)
(***************************************************************************)
FilterResponses == { InvoiceA, ContractB, Untyped }
FilterSearchInputs == { <<" ">>, contract, <<" ">> \o Fattura \o <<" ">>, zzz }
FilterTypeInputs == { <<" ">>, fattura, <<" ">> \o Contratto, <<"f", "a", "t", "t">> }

\* All sequences over S of length at most n.
RECURSIVE SeqsUpTo(_, _)
SeqsUpTo(S, n) ==
    IF n = 0 THEN { <<>> }
    ELSE LET shorter == SeqsUpTo(S, n - 1)
         IN shorter \cup { Append(xs, x) : xs \in shorter, x \in S }

\* The list after addDocument was called with xs[1], xs[2], ... in
\* successive milliseconds.
RECURSIVE documentsAfter(_)
documentsAfter(xs) ==
    IF xs = <<>> THEN <<>>
    ELSE <<newDoc(xs[Len(xs)], Len(xs), 0)>> \o documentsAfter(SubSeq(xs, 1, Len(xs) - 1))

\* The mounted page after addDocument was called with some results of R and
\* nothing else happened.
InitLoaded(R) ==
    \E xs \in SeqsUpTo(R, MaxInserts) :
        /\ documents = documentsAfter(xs)
        /\ filtered = documents
        /\ filters = [search |-> <<>>, type |-> <<>>]
        /\ search = <<>>
        /\ type = <<>>
        /\ debounceTimer = 0
        /\ timers = {}
        /\ clock = 0
        /\ now = Len(xs)
        /\ mounted = TRUE
        /\ destroyed = FALSE
        /\ page_isLoading = FALSE
        /\ loadingError = ""
        /\ file = [f \in {1} |-> null]
        /\ error = [f \in {1} |-> ""]
        /\ isLoading = [f \in {1} |-> FALSE]
        /\ calls = {}
        /\ request = [absolute |-> FALSE, segments |-> <<>>]
        /\ phase = "idle"
        /\ reads = {}
        /\ submits = 0
        /\ completed = <<>>
        /\ lastInputAt = -1
        /\ burstSize = 0
        /\ applied = <<>>
        /\ created = [i \in 1..Len(xs) |-> newId(i, 0)]
        /\ lastCall = Other
        /\ lastQuery = [search |-> <<>>, type |-> <<>>, repeated |-> FALSE]

InitFilters == InitLoaded(FilterResponses)

NextFilters ==
    \/ SearchInput(FilterSearchInputs)
    \/ DebounceTimeout
    \/ TypeInput(FilterTypeInputs)
    \/ ResetFilters
    \/ ClearSearchChip
    \/ ClearTypeChip

SpecFilters == InitFilters /\ [][NextFilters]_vars

(***************************************************************************)
(* The Filters component to its end: the page is left at some moment, and  *)
(* its components are destroyed. The fields get no events after that, but  *)
(* a timeout that is still scheduled runs.                                 *)
(***************************************************************************)
OnDestroy ==
    /\ mounted
    /\ onDestroy
    /\ mounted' = FALSE
    /\ UNCHANGED <<storeVars, page_isLoading, loadingError, formVars, serviceVars,
                   now, created, lastCall, lastQuery, uploadHistory, debounceHistory>>

NextDestroy ==
    \/ SearchInput(FilterSearchInputs)
    \/ DebounceTimeout
    \/ TypeInput(FilterTypeInputs)
    \/ ResetFilters
    \/ ClearSearchChip
    \/ ClearTypeChip
    \/ OnDestroy

SpecDestroy == InitFilters /\ [][NextDestroy]_vars

(***************************************************************************)
(* The end-to-end scenario: the two documents are inserted and the three   *)
(* queries are entered.                                                    *)
(***************************************************************************)
ScenarioResponses == { InvoiceA, ContractB }
ScenarioSearchInputs == { contract, zzz }
ScenarioTypeInputs == { fattura }

NextScenario ==
    \/ OnMount
    \/ AddDocument(ScenarioResponses)
    \/ SearchInput(ScenarioSearchInputs)
    \/ DebounceTimeout
    \/ TypeInput(ScenarioTypeInputs)
    \/ ResetFilters
    \/ ClearSearchChip
    \/ ClearTypeChip

SpecScenario == Init /\ [][NextScenario]_vars

(***************************************************************************)
(* The upload form on the page: files are selected and submitted, and the  *)
(* requests settle, while documents are deleted and the filters change.    *)
(***************************************************************************)
\* The file selected in the input changes to one of S, or to none. The input
\* is disabled while the form is loading.
FileChange(S) ==
    \E f \in Forms, selectedFile \in S \cup {null} :
        /\ mounted
        /\ ~fileInputDisabled(f)
        /\ selectedFile # file[f]
        /\ onFileChange(f, selectedFile)
        /\ UNCHANGED <<storeVars, filtersVars, pageVars, serviceVars, now, created,
                       lastCall, lastQuery, uploadHistory, debounceHistory>>

\* The submit button of a form is clicked: it is not disabled.
Submit ==
    \E f \in Forms :
        /\ mounted
        /\ ~submitDisabled(f)
        /\ submits < MaxSubmits
        /\ onSubmit(f, submits + 1)
        /\ submits' = submits + 1
        /\ UNCHANGED <<storeVars, filtersVars, pageVars, serviceVars, now, created,
                       lastCall, lastQuery, completed, debounceHistory>>

FetchRejects ==
    \E c \in calls :
        /\ fetchRejected(c)
        /\ UNCHANGED <<filtersVars, pageVars, serviceVars, now, created, lastCall,
                       lastQuery, uploadHistory, debounceHistory>>

FetchFulfills ==
    \E c \in calls, ok \in BOOLEAN :
        /\ fetchFulfilled(c, ok)
        /\ UNCHANGED <<filtersVars, pageVars, serviceVars, now, created, lastCall,
                       lastQuery, uploadHistory, debounceHistory>>

\* The body of a response that is not ok is one of B.
ErrorJsonSettles(B) ==
    \E c \in calls, body \in B :
        /\ errorJsonSettled(c, body)
        /\ UNCHANGED <<filtersVars, pageVars, serviceVars, now, created, lastCall,
                       lastQuery, uploadHistory, debounceHistory>>

JsonRejects ==
    \E c \in calls :
        /\ jsonRejected(c)
        /\ UNCHANGED <<filtersVars, pageVars, serviceVars, now, created, lastCall,
                       lastQuery, uploadHistory, debounceHistory>>

\* The body of an ok response parses to one of R, and onAdd is called.
JsonFulfills(R) ==
    \E c \in calls, analyzedData \in R, t \in {now, now + 1}, r \in RandomValues :
        /\ jsonFulfilled(c, analyzedData, t, r)
        /\ now' = t
        /\ created' = Append(created, newId(t, r))
        /\ lastCall' = CalledAdd(analyzedData, newId(t, r))
        /\ lastQuery' = NotRepeated
        /\ completed' = Append(completed, [submit |-> c.n, file |-> c.file,
                                           doc |-> newDoc(analyzedData, t, r)])
        /\ UNCHANGED <<filtersVars, pageVars, serviceVars, submits, debounceHistory>>

UploadFiles == { File(maxBytes), File(maxBytes + 1) }
ErrorBodies == { Unparsable, JsonNull, ErrorObject("Analisi fallita"), ErrorObject("") }
UploadResponses == { InvoiceA, SubjectsByRole }

NextUpload ==
    \/ OnMount
    \/ FileChange(UploadFiles)
    \/ Submit
    \/ FetchRejects
    \/ FetchFulfills
    \/ ErrorJsonSettles(ErrorBodies)
    \/ JsonRejects
    \/ JsonFulfills(UploadResponses)
    \/ DeleteDocument
    \/ SearchInput(SearchInputs)
    \/ DebounceTimeout
    \/ TypeInput(TypeInputs)

SpecUpload == Init /\ [][NextUpload]_vars

(***************************************************************************)
(* The upload form alone, with the event loop's guarantee: the body of a   *)
(* response that has arrived is read to its end, so that an await of       *)
(* response.json() settles. Whether a fetch settles is up to the network.  *)
(***************************************************************************)
NextSubmit ==
    \/ OnMount
    \/ FileChange(UploadFiles)
    \/ Submit
    \/ FetchRejects
    \/ FetchFulfills
    \/ ErrorJsonSettles(ErrorBodies)
    \/ JsonRejects
    \/ JsonFulfills(UploadResponses)

SpecSubmit ==
    /\ Init
    /\ [][NextSubmit]_vars
    /\ WF_vars(ErrorJsonSettles(ErrorBodies))
    /\ WF_vars(JsonRejects \/ JsonFulfills(UploadResponses))

(***************************************************************************)
(* Two upload forms that feed the same store: a page that passes its       *)
(* addDocument as the onAdd prop of two UploadForm instances, mounted.     *)
(***************************************************************************)
InitTwoForms ==
    /\ documents = <<>>
    /\ filtered = <<>>
    /\ filters = [search |-> <<>>, type |-> <<>>]
    /\ search = <<>>
    /\ type = <<>>
    /\ debounceTimer = 0
    /\ timers = {}
    /\ clock = 0
    /\ now = 0
    /\ mounted = TRUE
    /\ destroyed = FALSE
    /\ page_isLoading = FALSE
    /\ loadingError = ""
    /\ file = [f \in {1, 2} |-> null]
    /\ error = [f \in {1, 2} |-> ""]
    /\ isLoading = [f \in {1, 2} |-> FALSE]
    /\ calls = {}
    /\ request = [absolute |-> FALSE, segments |-> <<>>]
    /\ phase = "idle"
    /\ reads = {}
    /\ created = <<>>
    /\ lastCall = Other
    /\ lastQuery = [search |-> <<>>, type |-> <<>>, repeated |-> FALSE]
    /\ submits = 0
    /\ completed = <<>>
    /\ lastInputAt = -1
    /\ burstSize = 0
    /\ applied = <<>>

TwoFormsFiles == { File(maxBytes) }
TwoFormsBodies == { Unparsable }
TwoFormsResponses == { InvoiceA, ContractB }

NextTwoForms ==
    \/ FileChange(TwoFormsFiles)
    \/ Submit
    \/ FetchRejects
    \/ FetchFulfills
    \/ ErrorJsonSettles(TwoFormsBodies)
    \/ JsonRejects
    \/ JsonFulfills(TwoFormsResponses)

SpecTwoForms == InitTwoForms /\ [][NextTwoForms]_vars

(***************************************************************************)
(* The search field in time: inputs arrive, time passes, and the event     *)
(* loop runs the callback of a timeout when its delay has elapsed.         *)
(***************************************************************************)
\* The milliseconds that pass between two events.
Delays == { 100, 200 }
DebounceSearchInputs == { contract, zzz }

\* The user types one of S into the search field, at the time clock.
SearchInputAt(S) ==
    \E text \in S :
        /\ mounted
        /\ text # search
        /\ handleSearchInput(text)
        /\ lastInputAt' = clock
        /\ burstSize' = IF applied # <<>> THEN 1
                        ELSE IF burstSize < 3 THEN burstSize + 1 ELSE 3
        /\ applied' = <<>>
        /\ UNCHANGED <<clock, pageVars, formVars, serviceVars, now, created,
                       lastCall, lastQuery, uploadHistory>>

\* Time passes, up to the time the next timeout is due.
TimePasses ==
    \E d \in Delays :
        /\ clock + d <= MaxTime
        /\ \A tm \in timers : clock + d <= tm.due
        /\ clock' = clock + d
        /\ UNCHANGED <<storeVars, filtersVars, pageVars, formVars, serviceVars, now,
                       created, lastCall, lastQuery, uploadHistory, lastInputAt,
                       burstSize, applied>>

\* The event loop runs the callback of a timeout that is due.
TimeoutRuns ==
    \E tm \in timers :
        /\ tm.due <= clock
        /\ debounceTimeout(tm)
        /\ applied' = Append(applied, clock)
        /\ lastQuery' = CalledApply
        /\ lastCall' = Other
        /\ UNCHANGED <<clock, pageVars, formVars, serviceVars, now, created,
                       uploadHistory, lastInputAt, burstSize>>

NextDebounce ==
    \/ SearchInputAt(DebounceSearchInputs)
    \/ TimePasses
    \/ TimeoutRuns

SpecDebounce == InitFilters /\ [][NextDebounce]_vars

(***************************************************************************)
(* The analysis service, /api/analyze-file: the handling of a path-based   *)
(* request up to the read of the file. A path is absolute or relative and  *)
(* is a sequence of segments.                                              *)
(***************************************************************************)
\* The configured root, an absolute path.
Root == << "project" >>

PathSegments == { "..", "project", "docs" }

\* Canonical form of an absolute path: a ".." segment removes the segment
\* before it, and stays at the top when there is none.
RECURSIVE normalizeOnto(_, _)
normalizeOnto(stack, segments) ==
    IF segments = <<>> THEN stack
    ELSE IF Head(segments) = ".."
         THEN normalizeOnto(IF stack = <<>> THEN <<>> ELSE SubSeq(stack, 1, Len(stack) - 1),
                            Tail(segments))
         ELSE normalizeOnto(Append(stack, Head(segments)), Tail(segments))

\* A relative path is taken from the root.
joinRoot(req) == IF req.absolute THEN req.segments ELSE Root \o req.segments

\* The location the requested path resolves to.
resolve(req) == normalizeOnto(<<>>, joinRoot(req))

startsWith(path, prefix) ==
    Len(prefix) <= Len(path) /\ SubSeq(path, 1, Len(prefix)) = prefix

\* A faulty check: the path is compared as it was written.
isInsideRoot_asWritten(req) == startsWith(joinRoot(req), Root)

\* The check of the requested path: canonicalized, it remains within the root.
isInsideRoot(req) == startsWith(resolve(req), Root)

\* request.get_json(): a request with a file path arrives.
receiveRequest(req) ==
    /\ phase = "idle"
    /\ request' = req
    /\ phase' = "received"
    /\ reads' = {}

\* The path is checked; a path outside the root fails with InvalidInput.
validatePath ==
    /\ phase = "received"
    /\ phase' = IF isInsideRoot(request) THEN "validated" ELSE "InvalidInput"
    /\ UNCHANGED <<request, reads>>

\* The file is read.
readFile ==
    /\ phase = "validated"
    /\ reads' = reads \cup { resolve(request) }
    /\ phase' = "read"
    /\ UNCHANGED request

\* The response is sent and the service is ready for the next request.
respond ==
    /\ phase \in { "read", "InvalidInput" }
    /\ phase' = "idle"
    /\ UNCHANGED <<request, reads>>

Requests == [absolute : BOOLEAN, segments : SeqsUpTo(PathSegments, MaxSegments)]

ReceiveRequest ==
    \E req \in Requests :
        /\ receiveRequest(req)
        /\ UNCHANGED <<storeVars, filtersVars, pageVars, formVars, now, created,
                       lastCall, lastQuery, uploadHistory, debounceHistory>>

ValidatePath ==
    /\ validatePath
    /\ UNCHANGED <<storeVars, filtersVars, pageVars, formVars, now, created,
                   lastCall, lastQuery, uploadHistory, debounceHistory>>

ReadFile ==
    /\ readFile
    /\ UNCHANGED <<storeVars, filtersVars, pageVars, formVars, now, created,
                   lastCall, lastQuery, uploadHistory, debounceHistory>>

Respond ==
    /\ respond
    /\ UNCHANGED <<storeVars, filtersVars, pageVars, formVars, now, created,
                   lastCall, lastQuery, uploadHistory, debounceHistory>>

NextService ==
    \/ ReceiveRequest
    \/ ValidatePath
    \/ ReadFile
    \/ Respond

SpecService == Init /\ [][NextService]_vars

(***************************************************************************)
(* The searchable text: documents with the same present fields, in         *)
(* different places, and a search for two words.                           *)
(***************************************************************************)
\* Two results with the fields "zzz" and "fattura" present, in this order:
\* the name and the description, or the name and the type.
NameAndDescription == AnalyzedData(Some(zzz), Undefined, Undefined, Some(fattura))
NameAndType == AnalyzedData(Some(zzz), Some(fattura), Undefined, Undefined)

SearchableResponses == { NameAndDescription, NameAndType }
SearchableInputs == { zzz \o <<" ">> \o fattura, fattura }

InitSearchable == InitLoaded(SearchableResponses)

NextSearchable ==
    \/ SearchInput(SearchableInputs)
    \/ DebounceTimeout
    \/ ClearSearchChip

SpecSearchable == InitSearchable /\ [][NextSearchable]_vars

(***************************************************************************)
(* Properties.                                                             *)
(***************************************************************************)
\* a is b with some elements left out: same elements, same order, none more
\* often than in b.
RECURSIVE IsSubsequence(_, _)
IsSubsequence(a, b) ==
    IF a = <<>> THEN TRUE
    ELSE IF b = <<>> THEN FALSE
    ELSE IF Head(a) = Head(b) THEN IsSubsequence(Tail(a), Tail(b))
    ELSE IsSubsequence(a, Tail(b))

\* docs without its element at position k
WithoutIndex(docs, k) == SubSeq(docs, 1, k - 1) \o SubSeq(docs, k + 1, Len(docs))

\* The step calls addDocument: it is the one call that generates an id.
AddStep == Len(created') = Len(created) + 1

\* The step calls deleteDocument(id).
DeleteStep(id) == deleteDocument(id) /\ UNCHANGED <<search, type, now, created>>

\* The step calls onFilter, from one of the handlers of the Filters component.
OnFilterStep ==
    \/ \E tm \in timers : debounceTimeout(tm)
    \/ handleTypeChange(type')
    \/ resetFilters
    \/ clearSearchChip
    \/ clearTypeChip

C2_InsertPrepends ==
    [][AddStep =>
        /\ Len(documents') = Len(documents) + 1
        /\ documents'[1].name = lastCall'.arg.filename
        /\ documents'[1].extracted_data = lastCall'.arg.extracted_data
        /\ \A i \in 1..Len(documents) : documents'[i + 1] = documents[i]]_vars

\* C2 witness: a third document has been put before two others.
C2_Witness ==
    /\ lastCall.op = "addDocument"
    /\ Len(documents) = 3
    /\ documents[1].name # documents[2].name

\* C3: no two documents ever created by the store share an id.
C3_IdsUnique ==
    \A i, j \in 1..Len(created) : i # j => created[i] # created[j]

\* C4: addDocument followed immediately by deleteDocument of the id it
\* generated returns the collection and the filtered view to what they were.
C4_InsertThenRemove ==
    [][lastCall.op = "addDocument" /\ DeleteStep(lastCall.id) =>
        /\ documents' = lastCall.documents
        /\ filtered' = lastCall.filtered]_vars

\* C5: deleteDocument with an id no document has leaves the collection and
\* the filtered view unchanged; with an id a document has, it removes that one
\* document and keeps the others in their order.
C5_Remove ==
    [][\A id \in idsOf(documents) \cup { created[i] : i \in 1..Len(created) }
                  \cup { newId(MaxInserts + 1, 0) } :
          DeleteStep(id) =>
            IF id \notin idsOf(documents)
            THEN documents' = documents /\ filtered' = filtered
            ELSE \E k \in 1..Len(documents) :
                    /\ documents[k].id = id
                    /\ documents' = WithoutIndex(documents, k)]_vars

InFiltered(doc) == \E j \in 1..Len(filtered) : filtered[j] = doc

\* The search term and the type term of the latest query: the texts of the
\* fields, trimmed.
searchTerm == trim(lastQuery.search)
typeTerm == trim(lastQuery.type)

\* The search predicate: the searchable string contains the lower-cased term.
PassesSearch(doc) == includes(searchableText(doc), toLowerCase(searchTerm))

\* The type predicate: no term, or a tipo_documento that is present and equals
\* the term when both are lower-cased.
PassesType(doc) ==
    \/ typeTerm = <<>>
    \/ /\ doc.extracted_data.tipo_documento.def
       /\ toLowerCase(doc.extracted_data.tipo_documento.val) = toLowerCase(typeTerm)

\* C7: whatever is typed into the search field, a document that is listed
\* passes the search predicate for the trimmed, lower-cased text, and when no
\* type term is set the listed documents are exactly those that pass it; an
\* empty or blank search text lets every document pass.
C7_SearchPredicate ==
    \A i \in 1..Len(documents) :
        /\ InFiltered(documents[i]) => PassesSearch(documents[i])
        /\ typeTerm = <<>> => (PassesSearch(documents[i]) => InFiltered(documents[i]))
        /\ (searchTerm = <<>> /\ PassesType(documents[i])) => InFiltered(documents[i])

\* C7 witness: the text " Fattura " was applied with no type term; it keeps
\* the invoice and the untyped document whose description says "fattura",
\* and drops the contract.
C7_Witness ==
    /\ lastQuery.search = <<" ">> \o Fattura \o <<" ">>
    /\ typeTerm = <<>>
    /\ filters.search = Fattura
    /\ Len(documents) = 3
    /\ Len(filtered) = 2
    /\ \E i \in 1..3 : ~documents[i].extracted_data.tipo_documento.def /\ InFiltered(documents[i])

\* C8: whatever is typed into the type field, a document that is listed passes
\* the type predicate for the trimmed text, and when no search term is set the
\* listed documents are exactly those that pass it; a document without
\* tipo_documento is listed only when the trimmed type text is empty.
C8_TypePredicate ==
    \A i \in 1..Len(documents) :
        /\ InFiltered(documents[i]) => PassesType(documents[i])
        /\ searchTerm = <<>> => (PassesType(documents[i]) => InFiltered(documents[i]))
        /\ (~documents[i].extracted_data.tipo_documento.def /\ InFiltered(documents[i]))
              => typeTerm = <<>>

\* C8 witness: the text " Contratto" was applied with no search term; it
\* keeps the contract and drops the invoice and the untyped document.
C8_Witness ==
    /\ lastQuery.type = <<" ">> \o Contratto
    /\ searchTerm = <<>>
    /\ Len(documents) = 3
    /\ Len(filtered) = 1
    /\ filtered[1].name = Some(Contract_B)
    /\ \E i \in 1..3 : ~documents[i].extracted_data.tipo_documento.def
    /\ \E i \in 1..3 : documents[i].name = Some(Invoice_A)

\* The names of the documents of a list.
namesOf(docs) == [i \in 1..Len(docs) |-> docs[i].name]

\* The store holds the two documents of the scenario, inserted in that order.
ScenarioInserted ==
    /\ namesOf(documents) = <<Some(Contract_B), Some(Invoice_A)>>
    /\ documents[1].extracted_data.tipo_documento = Some(Contratto)
    /\ documents[2].extracted_data.tipo_documento = Some(Fattura)

\* C9: with "Invoice A" (Fattura) and "Contract B" (Contratto) inserted, the
\* query {search: "", type: "fattura"} lists exactly Invoice A, the query
\* {search: "contract", type: ""} lists exactly Contract B and the query
\* {search: "zzz", type: ""} lists nothing.
C9_EndToEnd ==
    ScenarioInserted =>
        /\ filters = [search |-> <<>>, type |-> fattura]
              => namesOf(filtered) = <<Some(Invoice_A)>>
        /\ filters = [search |-> contract, type |-> <<>>]
              => namesOf(filtered) = <<Some(Contract_B)>>
        /\ filters = [search |-> zzz, type |-> <<>>]
              => filtered = <<>>

\* C9 witness: the two documents are in the store and the type query
\* "fattura" has been applied.
C9_Witness ==
    /\ ScenarioInserted
    /\ lastQuery.type = fattura
    /\ filters = [search |-> <<>>, type |-> fattura]
    /\ Len(filtered) = 1

\* C10: an onFilter call with the query that is active already leaves the
\* filters, the documents and the filtered view as they are.
C10_FilterIdempotent ==
    [][OnFilterStep /\ filters' = filters =>
        /\ filtered' = filtered
        /\ documents' = documents]_vars

\* C10 witness: onFilter has been called with the active query, one that
\* hides a document.
C10_Witness ==
    /\ lastQuery.repeated
    /\ filters.search # <<>>
    /\ filters.type # <<>>
    /\ Len(filtered) < Len(documents)

\* The onSubmit calls of form f that are suspended at an await: the analysis
\* requests of the form that are in flight.
inFlight(f) == { c \in calls : c.form = f }

\* C11: a submit that ends with an error shown in the form, for whatever
\* reason (the fetch failed, the response was not ok, its body did not parse
\* or handling it raised an exception), leaves the documents and the filtered
\* view as they were, so that no partial document exists: the step that starts
\* the request and the step that ends it with the error change neither.
C11_FailedAnalysisKeepsStore ==
    [][\A c \in calls' \cup calls :
          (c \notin calls \/ (c \notin calls' /\ error'[c.form] # ""))
             => documents' = documents /\ filtered' = filtered]_vars

\* C12: a form has at most one analysis request in flight, and while it has
\* one its isLoading is true and its submit button is disabled.
C12_OneRequestPerForm ==
    \A f \in Forms :
        /\ Cardinality(inFlight(f)) <= 1
        /\ inFlight(f) # {} => isLoading[f] /\ submitDisabled(f)

\* C12 witness: the second request of the form is in flight and its response
\* has arrived; the first one has settled.
C12_Witness ==
    \E c \in calls :
        /\ c.n = 2
        /\ c.pc = "json"
        /\ calls = {c}
        /\ file[c.form] # null

\* C13: onAdd is called once for each response that is ok and parses, and
\* that call adds exactly one document; no other step makes the collection
\* grow.
C13_OncePerSuccess ==
    [][/\ Len(completed') > Len(completed)
            => Len(completed') = Len(completed) + 1 /\ Len(documents') = Len(documents) + 1
       /\ Len(documents') > Len(documents)
            => Len(completed') = Len(completed) + 1 /\ Len(documents') = Len(documents) + 1]_vars

\* C13 witness: two submits got a response that parsed, and the collection
\* holds the two documents.
C13_Witness ==
    /\ submits = 2
    /\ calls = {}
    /\ Len(completed) = 2
    /\ Len(documents) = 2
    /\ error[1] = ""

\* C14: the documents are in the store in the reverse of the order in which
\* the responses were handled: a document whose response was handled later
\* is at a lower index, whichever request was started first.
C14_CompletionOrder ==
    /\ Len(documents) = Len(completed)
    /\ \A i \in 1..Len(completed) : documents[i] = completed[Len(completed) - i + 1].doc

\* C14 witness: two requests were in flight together; the one started second
\* was answered first, and the document of the one started first is at
\* index 0.
C14_Witness ==
    /\ Len(completed) = 2
    /\ completed[1].submit = 2
    /\ completed[2].submit = 1
    /\ documents[1] = completed[2].doc
    /\ documents[1].name # documents[2].name

\* C15: after a search input, nothing is applied while less than debounceMs
\* have passed since it, and exactly one timeout is pending, the one of that
\* input; once more than debounceMs have passed the query was applied; it is
\* applied once, debounceMs after the latest input, with the text the field
\* holds, and no timeout is left to run.
C15_Debounce ==
    lastInputAt >= 0 =>
        /\ clock - lastInputAt < 300 => applied = <<>>
        /\ clock - lastInputAt > 300 => applied # <<>>
        /\ applied = <<>> => timers = { [id |-> debounceTimer, due |-> lastInputAt + 300] }
        /\ applied # <<>> =>
              /\ applied = << lastInputAt + 300 >>
              /\ timers = {}
              /\ lastQuery.search = search
              /\ filters.search = trim(search)

\* C15 witness: three or more inputs followed one another before a timeout
\* ran, and then the query of the last one was applied, hiding a document.
C15_Witness ==
    /\ burstSize = 3
    /\ applied # <<>>
    /\ clock > applied[1]
    /\ filters.search = zzz
    /\ Len(filtered) < Len(documents)

\* C16: a file larger than maxFileSize * 1024 * 1024 bytes never becomes the
\* selected file of a form and is never the file of a request; selecting it
\* sets the error and leaves the form without a file, and starts no request.
\* Selecting a file of exactly that size makes it the selected file.
C16_OversizeRejected ==
    [][/\ \A f \in Forms : file'[f] # null => file'[f].size <= maxFileSize * 1024 * 1024
       /\ \A c \in calls' : c.file.size <= maxFileSize * 1024 * 1024
       /\ \A f \in Forms, selected \in UploadFiles :
            (~fileInputDisabled(f) /\ onFileChange(f, selected)) =>
                IF selected.size > maxFileSize * 1024 * 1024
                THEN error'[f] # "" /\ file'[f] = null /\ calls' = calls
                ELSE error'[f] = "" /\ file'[f] = selected]_vars

\* C16 witness: a file of exactly 10 MB was analysed, and then a file one
\* byte larger was selected and refused.
C16_Witness ==
    /\ Len(completed) = 1
    /\ completed[1].file.size = maxFileSize * 1024 * 1024
    /\ error[1] = "File troppo grande. Massimo 10MB consentiti."
    /\ file[1] = null
    /\ calls = {}

\* The values of the fields of a document that go into the searchable text
\* and are present, in the order of the text.
presentFields(doc) ==
    SelectSeq(<<doc.name, doc.extracted_data.tipo_documento>>
              \o spreadOrEmpty(doc.extracted_data.soggetti_coinvolti)
              \o <<doc.extracted_data.descrizione_breve>>,
              LAMBDA x : x.def)

\* C18: an absent field adds nothing to the searchable text, no separator
\* either: with no type term set, two documents whose present fields are the
\* same values in the same order are both listed or both not listed, whatever
\* the search term is.
C18_AbsentFieldsSkipped ==
    filters.type = <<>> =>
        \A i, j \in 1..Len(documents) :
            presentFields(documents[i]) = presentFields(documents[j])
               => (InFiltered(documents[i]) <=> InFiltered(documents[j]))

C20_AlwaysLoaded == page_isLoading = FALSE /\ loadingError = ""

\* C20 witness: the page is mounted; a document was inserted and removed
\* again, a type filter is set, and an upload has failed.
C20_Witness ==
    /\ mounted
    /\ Len(created) = 1
    /\ documents = <<>>
    /\ filters.type # <<>>
    /\ error[1] = "Errore di comunicazione con il server"

\* C17: while a request is handled whose path resolves to a location
\* outside the root, no file has been read for it, and once its path was
\* checked it has failed with InvalidInput.
C17_PathOutsideRootRejected ==
    (phase # "idle" /\ ~startsWith(resolve(request), Root)) =>
        /\ reads = {}
        /\ phase \in { "received", "InvalidInput" }

\* C17 witness: a relative path that leaves the root through ".." segments
\* was refused.
C17_Witness ==
    /\ phase = "InvalidInput"
    /\ request = [absolute |-> FALSE, segments |-> << "docs", "..", ".." >>]
    /\ reads = {}

\* The onSubmit call c ends in this step: it is suspended before the step and
\* no call of its fetch is suspended after it.
ends(c) == c \in calls /\ \A d \in calls' : d.n # c.n

\* C21: a submit whose fetch has settled with a response ends, and the step
\* in which any submit ends leaves isLoading false. If it ends without an
\* error (success), the selected file is cleared and the submit button is
\* disabled; if it ends with an error shown (any failure path: the fetch
\* failed, the response was not ok, its body did not parse, or handling it
\* threw), the file that was submitted is still selected and the submit
\* button is enabled.
C21_SubmitSettles ==
    /\ [][\A c \in calls :
             ends(c) =>
                /\ ~isLoading'[c.form]
                /\ IF error'[c.form] = ""
                   THEN file'[c.form] = null /\ submitDisabled(c.form)'
                   ELSE /\ file'[c.form] = c.file
                        /\ c.file # null
                        /\ ~submitDisabled(c.form)']_vars
    /\ \A n \in 1..MaxSubmits :
          (\E c \in calls : c.n = n /\ c.pc # "fetch") ~> (\A c \in calls : c.n # n)

\* C21 witness: the first submit succeeded (its document is in the store and
\* in the view), a file was chosen again, and the second submit failed: the
\* form is not loading, shows the error and still has the file.
C21_Witness ==
    /\ submits = 2
    /\ calls = {}
    /\ Len(completed) = 1
    /\ completed[1].submit = 1
    /\ Len(filtered) = 1
    /\ ~isLoading[1]
    /\ error[1] # ""
    /\ file[1] # null

\* The query the Filters component passes to onFilter when its fields hold
\* s and ty.
queryOf(s, ty) == [search |-> trim(s), type |-> trim(ty)]

\* A scheduled timeout runs in this step: it leaves the scheduled timeouts
\* and the fields and the handle are as they were (a handler that clears a
\* timeout changes a field or the handle).
TimeoutStep ==
    /\ \E tm \in timers : timers' = timers \ {tm}
    /\ UNCHANGED <<search, type, debounceTimer>>

\* C22: in every interleaving of search inputs, type inputs, chip clears,
\* resets and timeouts: (a) a step that changes the type field sets the
\* store's filters to the trimmed values of the fields in that same step;
\* (b) a step in which a debounce timeout runs, whatever happened since it
\* was scheduled, sets them to the trimmed values the fields have then, and
\* no step sets them to anything else; (c) whenever no timeout is pending,
\* the store's filters are the trimmed values of the two fields.
C22_FiltersFollowFields ==
    /\ [][type' # type => filters' = queryOf(search', type')]_vars
    /\ [][TimeoutStep => filters' = queryOf(search', type')]_vars
    /\ [][filters' # filters => filters' = queryOf(search', type')]_vars
    /\ [](timers = {} => filters = queryOf(search, type))

\* C22 witness: both filters are active, no timeout is pending, and the
\* latest onFilter call passed the query that was active already. A type
\* input that keeps the type filter active always changes the query here, so
\* that call was a timeout: it was pending while a type input applied the
\* search text early, and then ran.
C22_Witness ==
    /\ timers = {}
    /\ debounceTimer # 0
    /\ lastQuery.repeated
    /\ filters.search # <<>>
    /\ filters.type # <<>>
    /\ filters = queryOf(search, type)

C24_FrameOfStore ==
    /\ [][AddStep => filters' = filters]_vars
    /\ [][\A id \in idsOf(documents) \cup { created[i] : i \in 1..Len(created) }
                      \cup { newId(MaxInserts + 1, 0) } :
              DeleteStep(id) => filters' = filters]_vars
    /\ [][OnFilterStep => documents' = documents]_vars
    /\ [][documents' # documents => filters' = filters]_vars

\* C24 witness: with a search text and a type active (set by onFilter
\* calls), the latest call of the store was an addDocument that added to a
\* collection that was not empty, and the filters are still active.
C24_Witness ==
    /\ lastCall.op = "addDocument"
    /\ Len(lastCall.documents) >= 1
    /\ Len(documents) = Len(lastCall.documents) + 1
    /\ documents[1].id = lastCall.id
    /\ filters.search # <<>>
    /\ filters.type # <<>>

\* C25: once the Filters component is destroyed, no timeout is scheduled and
\* no step calls onFilter: the store's filters and the filtered view stay as
\* they were when it was destroyed.
C25_NoFilterAfterDestroy ==
    /\ [](destroyed => timers = {})
    /\ [][destroyed => ~OnFilterStep /\ UNCHANGED <<filters, filtered>>]_vars

\* C25 witness: the component was destroyed while a typed search text was
\* waiting for its timeout: the store's filters are not the trimmed fields,
\* debounceTimer still holds the handle, and the timeout is gone.
C25_Witness ==
    /\ destroyed
    /\ debounceTimer # 0
    /\ timers = {}
    /\ filters # queryOf(search, type)

====
